---- MODULE Spec2Model ----
(***************************************************************************)
(* Model of the threaded static-file HTTP server (threaded-server.c).      *)
(*                                                                         *)
(* main() accepts a connection, creates one thread running                 *)
(* handleHTTPRequest on it and joins that thread before it accepts again.  *)
(* handleHTTPRequest does one recv, looks for a "host:" token, dispatches  *)
(* on the method, calls transferFile for GET/HEAD and closes the socket.   *)
(*                                                                         *)
(* Everything a thread does to the outside world (lstat, open, write,      *)
(* sendfile, close, stderr lines) is recorded, in program order, in the    *)
(* thread's trace; the claims are stated over these traces and over the    *)
(* process's descriptor table.                                             *)
(***************************************************************************)
EXTENDS Integers, Sequences, FiniteSets, TLC

(***************************************************************************)
(* Bounds of the model.                                                    *)
(***************************************************************************)
\* connections a run of the server sees
MaxConns == 2
\* largest regular-file size (bytes) in the served tree
MaxSize == 2

(***************************************************************************)
(* Program constants.                                                      *)
(***************************************************************************)
CONTENT_YES == 1
CONTENT_NO == 0

Conns == 1..MaxConns

\* strlen() of the fixed HTML bodies HTTP_BODY_400 .. HTTP_BODY_503
HTTP_BODY_LEN(status) ==
    CASE status = 400 -> 211
      [] status = 403 -> 209
      [] status = 404 -> 214
      [] status = 405 -> 217
      [] status = 503 -> 219

VARIABLES
    ServerConfiguration,  \* the global configuration structure
    fs,                   \* the file tree under the server root: path -> node
    mainPc,               \* where main() is: "start", "accept", "create", "join", "exit"
    clientfd,             \* main's loop variable: the connection accept returned
    backlog,              \* connections completed by the kernel, waiting in the listen queue
    arrived,              \* number of clients that have connected so far
    fdTable,              \* descriptors open in the process: <<"sock", c>>, <<"file", c>>
    closes,               \* per connection: number of close() calls made on its socket
    wpc,                  \* per connection: where its handler thread is
    wfd,                  \* per thread: local fd = *(int *)clientfd
    req,                  \* per thread: what recv put into headers[]
    host_hdr,             \* per thread: whether strcasestr(headers, "host:") != NULL
    trace                 \* per thread: the calls it made, in order

vars == <<ServerConfiguration, fs, mainPc, clientfd, backlog, arrived, fdTable,
          closes, wpc, wfd, req, host_hdr, trace>>

(***************************************************************************)
(* The file tree.  A path is the sequence of its components; lstat sees a  *)
(* regular file (with a size and a modification time), a directory,        *)
(* something else (symlink, fifo, device) or nothing.                      *)
(***************************************************************************)
\* the command line: -r <webroot> -i <indexFile>
webroot == <<"www">>
indexfile == "index.html"

NoNode == [kind |-> "none", size |-> 0, mtime |-> 0]
DirNode(p) == [kind |-> "dir", size |-> 0, mtime |-> Len(p)]
OtherNode(p) == [kind |-> "other", size |-> 0, mtime |-> Len(p)]
RegNode(p, n) == [kind |-> "reg", size |-> n, mtime |-> Len(p)]

PathF == <<"www", "f">>
PathD == <<"www", "d">>
PathDI == <<"www", "d", "index.html">>
PathDII == <<"www", "d", "index.html", "index.html">>
Paths == {webroot, PathF, PathD, PathDI, PathDII}

FNodes == {RegNode(PathF, n) : n \in 0..MaxSize} \cup {OtherNode(PathF)}
DINodes == {RegNode(PathDI, n) : n \in 0..MaxSize}
              \cup {OtherNode(PathDI), DirNode(PathDI), NoNode}
DIINodes(di) == IF di.kind = "dir" THEN {NoNode, RegNode(PathDII, 1)} ELSE {NoNode}

Layout(f, di, dii) ==
    [p \in Paths |->
        CASE p = webroot -> DirNode(p)
          [] p = PathF -> f
          [] p = PathD -> DirNode(p)
          [] p = PathDI -> di
          [] p = PathDII -> dii]

\* The layouts of the served tree: www/ holds f (a file of any size, or a special
\* file) and the directory d/, whose index.html is missing, a file of any size,
\* a special file or itself a directory (with or without an index.html of its own).
Layouts ==
    UNION { { Layout(f, di, dii) : dii \in DIINodes(di) } : f \in FNodes, di \in DINodes }

\* lstat(path, &fileinfo): the node at path, NoNode when lstat returns -1
lstat(path) == IF path \in DOMAIN fs THEN fs[path] ELSE NoNode

\* snprintf(buf, PATH_MAX, "%s/%s", a, b) with b a single name
PathJoin(a, b) == Append(a, b)

\* snprintf(file_path, PATH_MAX, "%s/%s", ServerConfiguration.serverRoot, http_url)
FilePath(url) == ServerConfiguration.serverRoot \o url

getFileSize(path) ==
    LET fileinfo == lstat(path) IN
    IF fileinfo.kind = "reg" THEN fileinfo.size
    ELSE IF fileinfo.kind = "dir" THEN -2
    ELSE -1

getFileLastModTime(path) ==
    LET fileinfo == lstat(path) IN
    IF fileinfo.kind # "none" THEN fileinfo.mtime ELSE -1

\* strftime(outstring, buflen, "%a, %d %b %Y %T %Z", gmtime(secs))
httpHeaderTime(secs) == <<"GMT", secs>>

(***************************************************************************)
(* What a thread does, as a sequence of events.  An event is one call:     *)
(*   transferFile(arg = file, val = nocontent)                             *)
(*   getFileSize / getFileLastModTime (arg = path, val = the result)       *)
(*   open(arg = path, val = in_fd: 1 or -1)                                *)
(*   write(arg = the block written, val = "ok" or "err")                   *)
(*   sendfile(arg = path of in_fd, val = sentbytes)                        *)
(*   close(arg = "in_fd" or "fd")                                          *)
(*   perror / debug (stderr), log (the request line on stderr)             *)
(***************************************************************************)
Ev(op, arg, val) == [op |-> op, arg |-> arg, val |-> val]

\* a status line with its header fields, and a fixed HTML body
HeaderBlock(status, fields) == [kind |-> "hdr", status |-> status, fields |-> fields]
HtmlBody(status) == [kind |-> "html", status |-> status, fields |-> <<>>]

\* What the environment answers to the calls of one request: whether open()
\* succeeds, whether the write()s to the socket succeed, how much sendfile()
\* transfers (all of it, part of it, or -1), and what time(NULL) returns.
\* Once writes to the socket fail, sendfile to it fails as well.
Times == {9}
Envs ==
    { e \in [open : BOOLEAN, wr : {"ok", "err"}, sf : {"full", "short", "fail"}, now : Times] :
        e.wr = "err" => e.sf = "fail" }

\* the value of sendfile(out_fd, in_fd, NULL, size)
sendfile(size, env) ==
    CASE env.sf = "full" -> size
      [] env.sf = "short" -> size - 1
      [] env.sf = "fail" -> -1

\* ErrorHeaders with a Date header added, as in the 200 block
ErrorHeaders_WithDate(status) ==
    HeaderBlock(status, << <<"Date", httpHeaderTime(CHOOSE t \in Times : TRUE)>>,
                           <<"Connection", "close">>,
                           <<"Server", ServerConfiguration.serverName>> >>)

\* headers of the five non-200 answers: status line, Connection: close, Server
ErrorHeaders(status) ==
    HeaderBlock(status, << <<"Connection", "close">>,
                           <<"Server", ServerConfiguration.serverName>> >>)

\* lines 149-158: the 200 header block
OkHeaders(size, lastmodtime, env) ==
    HeaderBlock(200, << <<"Date", httpHeaderTime(env.now)>>,
                        <<"Last-Modified", httpHeaderTime(lastmodtime)>>,
                        <<"Content-Length", size>>,
                        <<"Server", ServerConfiguration.serverName>> >>)

\* sendRegular with a 503 block written after the 200 block when sendfile fails
sendRegular_ErrorAfterOk(file, size, nocontent, env) ==
    LET lastmodtime == getFileLastModTime(file)
        sentbytes == IF nocontent = CONTENT_YES THEN sendfile(size, env) ELSE 0
    IN [ev |-> << Ev("getFileLastModTime", file, lastmodtime),
                  Ev("open", file, 1),
                  Ev("write", OkHeaders(size, lastmodtime, env), env.wr) >>
               \o (IF nocontent = CONTENT_YES
                   THEN << Ev("sendfile", file, sentbytes) >>
                        \o (IF sentbytes = -1
                            THEN << Ev("perror", "sendfile()", 0),
                                    Ev("write", ErrorHeaders(503), env.wr),
                                    Ev("write", HtmlBody(503), env.wr) >>
                            ELSE << >>)
                   ELSE << >>)
               \o << Ev("close", "in_fd", 0) >>,
        ret |-> sentbytes]

\* sendRegular with the descriptor forgotten when sendfile fails
sendRegular_LeakOnSendfileError(file, size, nocontent, env) ==
    LET lastmodtime == getFileLastModTime(file)
        sentbytes == IF nocontent = CONTENT_YES THEN sendfile(size, env) ELSE 0
    IN [ev |-> << Ev("getFileLastModTime", file, lastmodtime),
                  Ev("open", file, 1),
                  Ev("write", OkHeaders(size, lastmodtime, env), env.wr) >>
               \o (IF nocontent = CONTENT_YES
                   THEN << Ev("sendfile", file, sentbytes) >>
                        \o (IF sentbytes = -1 THEN << Ev("perror", "sendfile()", 0) >> ELSE << >>)
                   ELSE << >>)
               \o (IF sentbytes = -1 THEN << >> ELSE << Ev("close", "in_fd", 0) >>),
        ret |-> sentbytes]

\* lines 145-165: the file is regular and open() succeeded
sendRegular(file, size, nocontent, env) ==
    LET lastmodtime == getFileLastModTime(file)
        sentbytes == IF nocontent = CONTENT_YES THEN sendfile(size, env) ELSE 0
    IN [ev |-> << Ev("getFileLastModTime", file, lastmodtime),
                  Ev("open", file, 1),
                  Ev("write", OkHeaders(size, lastmodtime, env), env.wr) >>
               \o (IF nocontent = CONTENT_YES
                   THEN << Ev("sendfile", file, sentbytes) >>
                        \o (IF sentbytes = -1 THEN << Ev("perror", "sendfile()", 0) >> ELSE << >>)
                   ELSE << >>)
               \o << Ev("close", "in_fd", 0) >>,
        ret |-> sentbytes]

\* openFailed with the 200 header block written before in_fd is tested
openFailed_AfterOkHeaders(file, env) ==
    [ev |-> << Ev("getFileLastModTime", file, getFileLastModTime(file)),
               Ev("open", file, -1),
               Ev("write", OkHeaders(getFileSize(file), getFileLastModTime(file), env), env.wr),
               Ev("write", ErrorHeaders(503), env.wr),
               Ev("write", HtmlBody(503), env.wr) >>,
     ret |-> 0]

\* lines 145-147, 166-176: the file is regular and open() failed
openFailed(file, env) ==
    [ev |-> << Ev("getFileLastModTime", file, getFileLastModTime(file)),
               Ev("open", file, -1),
               Ev("write", ErrorHeaders(503), env.wr),
               Ev("write", HtmlBody(503), env.wr) >>,
     ret |-> 0]

\* lines 187-197: the directory has no index file of positive size
indexMissing(env) ==
    [ev |-> << Ev("write", ErrorHeaders(404), env.wr),
               Ev("write", HtmlBody(404), env.wr) >>,
     ret |-> 0]

\* lines 198-208: a directory, and index serving is off
listingDenied(env) ==
    [ev |-> << Ev("write", ErrorHeaders(403), env.wr),
               Ev("write", HtmlBody(403), env.wr) >>,
     ret |-> 0]

\* statFailed with the fixed body left out
statFailed_HeadersOnly(env) ==
    [ev |-> << Ev("write", ErrorHeaders(404), env.wr) >>,
     ret |-> 0]

\* lines 209-219: neither a regular file of positive size nor a directory
statFailed(env) ==
    [ev |-> << Ev("write", ErrorHeaders(404), env.wr),
               Ev("write", HtmlBody(404), env.wr) >>,
     ret |-> 0]

RECURSIVE transferFile(_, _, _)

\* serveIndex with the caller's nocontent dropped: the index is always sent
serveIndex_AlwaysContent(filename, nocontent, env) == transferFile(filename, CONTENT_YES, env)

\* line 186: return transferFile(filename, out_fd, nocontent)
serveIndex(filename, nocontent, env) == transferFile(filename, nocontent, env)

\* serveDirectory with the index test "size != -1" in place of "size > 0"
serveDirectory_UnlessMissing(file, nocontent, env) ==
    IF ServerConfiguration.serveIndexFileInDirectory = 1
    THEN LET filename == PathJoin(file, ServerConfiguration.indexFile)
             size == getFileSize(filename)
             pre == << Ev("debug", "Serving the index file", filename),
                       Ev("getFileSize", filename, size) >>
             r == IF size # -1 THEN serveIndex(filename, nocontent, env)
                               ELSE indexMissing(env)
         IN [ev |-> pre \o r.ev, ret |-> r.ret]
    ELSE listingDenied(env)

\* serveDirectory with the serveIndexFileInDirectory test left out
serveDirectory_IgnoreFlag(file, nocontent, env) ==
    LET filename == PathJoin(file, ServerConfiguration.indexFile)
        size == getFileSize(filename)
        pre == << Ev("debug", "Serving the index file", filename),
                  Ev("getFileSize", filename, size) >>
        r == IF size > 0 THEN serveIndex(filename, nocontent, env)
                         ELSE indexMissing(env)
    IN [ev |-> pre \o r.ev, ret |-> r.ret]

\* serveDirectory with an index that is a directory followed as well
serveDirectory_FollowsDirectories(file, nocontent, env) ==
    IF ServerConfiguration.serveIndexFileInDirectory = 1
    THEN LET filename == PathJoin(file, ServerConfiguration.indexFile)
             size == getFileSize(filename)
             pre == << Ev("debug", "Serving the index file", filename),
                       Ev("getFileSize", filename, size) >>
             r == IF size > 0 \/ size = -2 THEN serveIndex(filename, nocontent, env)
                                           ELSE indexMissing(env)
         IN [ev |-> pre \o r.ev, ret |-> r.ret]
    ELSE listingDenied(env)

\* lines 178-208: the path is a directory
serveDirectory(file, nocontent, env) ==
    IF ServerConfiguration.serveIndexFileInDirectory = 1
    THEN LET filename == PathJoin(file, ServerConfiguration.indexFile)
             size == getFileSize(filename)
             pre == << Ev("debug", "Serving the index file", filename),
                       Ev("getFileSize", filename, size) >>
             r == IF size > 0 THEN serveIndex(filename, nocontent, env)
                              ELSE indexMissing(env)
         IN [ev |-> pre \o r.ev, ret |-> r.ret]
    ELSE listingDenied(env)

\* int transferFile(const char *file, int out_fd, int nocontent)
transferFile(file, nocontent, env) ==
    LET size == getFileSize(file)
        r == IF size > 0
             THEN IF env.open THEN sendRegular(file, size, nocontent, env)
                              ELSE openFailed(file, env)
             ELSE IF size = -2 THEN serveDirectory(file, nocontent, env)
                               ELSE statFailed(env)
    IN [ev |-> << Ev("transferFile", file, nocontent), Ev("getFileSize", file, size) >> \o r.ev,
        ret |-> r.ret]

(***************************************************************************)
(* handleHTTPRequest.                                                      *)
(***************************************************************************)
Methods == {"GET", "HEAD", "POST"}
Urls == { <<"f">>, <<"d">>, <<"d", "index.html">>, <<"x">> }

\* What headers[] holds after a successful recv: whether the bytes received
\* contain "host:", and the first three tokens sscanf finds in it.
Requests == [host : BOOLEAN, method : Methods, url : Urls, proto : {"HTTP/1.1"}]
NoRequest == [host |-> FALSE, method |-> "", url |-> << >>, proto |-> ""]

\* line 268: strcasestr(headers, "host:").  headers[] is an uninitialised
\* array and recv does not terminate what it stores, so the scan runs on
\* into whatever the array held before: a request without the token may
\* still have it found in the stale bytes that follow.
strcasestr(r) == IF r.host THEN {TRUE} ELSE {TRUE, FALSE}

\* lines 270-277: no host: token
badRequest(env) ==
    << Ev("write", ErrorHeaders(400), env.wr),
       Ev("write", HtmlBody(400), env.wr) >>

\* the request line written to stderr
LogLine(r, rbytes) == Ev("log", <<r.proto, r.method, r.url>>, rbytes)

\* serveFile with the request logged before the file is transferred
serveFile_LogsFirst(r, nocontent, env) ==
    LET t == transferFile(FilePath(r.url), nocontent, env)
    IN << LogLine(r, t.ret) >> \o t.ev

\* lines 289-294 and 297-302: GET and HEAD
serveFile(r, nocontent, env) ==
    LET t == transferFile(FilePath(r.url), nocontent, env)
    IN t.ev \o << LogLine(r, t.ret) >>

\* lines 304-317: any other method
methodNotAllowed(r, env) ==
    LET rbytes == HTTP_BODY_LEN(405)
    IN << Ev("write", ErrorHeaders(405), env.wr),
          Ev("write", HtmlBody(405), env.wr),
          LogLine(r, rbytes) >>

\* dispatch with every method but HEAD served as a GET
dispatch_OnlyHeadTested(r, env) ==
    IF r.method = "HEAD" THEN serveFile(r, CONTENT_NO, env)
    ELSE serveFile(r, CONTENT_YES, env)

\* lines 286-318: dispatch on the method token
dispatch(r, env) ==
    IF r.method = "GET" THEN serveFile(r, CONTENT_YES, env)
    ELSE IF r.method = "HEAD" THEN serveFile(r, CONTENT_NO, env)
    ELSE methodNotAllowed(r, env)

\* handleRequest with the host: test left out
handleRequest_NoHostTest(r, hh, env) ==
    << Ev("debug", "Extracted host header", 0) >> \o dispatch(r, env)

\* lines 268-319: what the handler does between recv and close
handleRequest(r, hh, env) ==
    IF ~hh THEN badRequest(env)
    ELSE << Ev("debug", "Extracted host header", 0) >> \o dispatch(r, env)

\* descriptors of files a run of events leaves open
FilesLeftOpen(ev) ==
    Len(SelectSeq(ev, LAMBDA e : e.op = "open" /\ e.val # -1))
      - Len(SelectSeq(ev, LAMBDA e : e.op = "close" /\ e.arg = "in_fd"))

(***************************************************************************)
(* The state.                                                              *)
(***************************************************************************)
ZeroConfiguration ==
    [serverRoot |-> << >>, indexFile |-> "", serverName |-> "",
     serveIndexFileInDirectory |-> 0]

\* lines 379, 384, 404, 405: the configuration processArguments leaves
StartedConfiguration ==
    [serverRoot |-> webroot, indexFile |-> indexfile, serverName |-> "Route5/1.0",
     serveIndexFileInDirectory |-> 1]

InitThreads ==
    /\ wpc = [c \in Conns |-> "none"]
    /\ wfd = [c \in Conns |-> 0]
    /\ req = [c \in Conns |-> NoRequest]
    /\ host_hdr = [c \in Conns |-> FALSE]
    /\ trace = [c \in Conns |-> << >>]

\* the process at the entry of main(): the global structure is zero-filled
Init ==
    /\ ServerConfiguration = ZeroConfiguration
    /\ fs \in Layouts
    /\ mainPc = "start"
    /\ clientfd = 0
    /\ backlog = 0
    /\ arrived = 0
    /\ fdTable = {}
    /\ closes = [c \in Conns |-> 0]
    /\ InitThreads

\* transferFile and handleHTTPRequest as units: the configuration they read
\* is an input, with index serving on or off
InitCfg ==
    /\ ServerConfiguration \in
          { [StartedConfiguration EXCEPT !.serveIndexFileInDirectory = b] : b \in {0, 1} }
    /\ fs \in Layouts
    /\ mainPc = "accept"
    /\ clientfd = 0
    /\ backlog = 0
    /\ arrived = 0
    /\ fdTable = {}
    /\ closes = [c \in Conns |-> 0]
    /\ InitThreads

threadVars == <<wpc, wfd, req, host_hdr, trace>>

(***************************************************************************)
(* main().                                                                 *)
(***************************************************************************)
\* processArguments leaving serveIndexFileInDirectory at its initial 0
processArguments_IndexOff ==
    /\ mainPc = "start"
    /\ ServerConfiguration' = [StartedConfiguration EXCEPT !.serveIndexFileInDirectory = 0]
    /\ mainPc' = "accept"
    /\ UNCHANGED <<fs, clientfd, backlog, arrived, fdTable, closes, threadVars>>

\* lines 356-409 and 442-485: configuration, then socket, bind, listen
processArguments ==
    /\ mainPc = "start"
    /\ ServerConfiguration' = StartedConfiguration
    /\ mainPc' = "accept"
    /\ UNCHANGED <<fs, clientfd, backlog, arrived, fdTable, closes, threadVars>>

\* a client completes the handshake and waits in the listen queue
Connect ==
    /\ mainPc \in {"accept", "create", "join"}
    /\ arrived < MaxConns
    /\ arrived' = arrived + 1
    /\ backlog' = backlog + 1
    /\ UNCHANGED <<ServerConfiguration, fs, mainPc, clientfd, fdTable, closes, threadVars>>

\* line 492: accept returns the next connection
Accept ==
    /\ mainPc = "accept"
    /\ backlog > 0
    /\ LET c == arrived - backlog + 1 IN
         /\ clientfd' = c
         /\ fdTable' = fdTable \cup { <<"sock", c>> }
    /\ backlog' = backlog - 1
    /\ mainPc' = "create"
    /\ UNCHANGED <<ServerConfiguration, fs, arrived, closes, threadVars>>

\* lines 493-496: accept returns -1: perror, break, return from main
AcceptFail ==
    /\ mainPc = "accept"
    /\ clientfd' = -1
    /\ mainPc' = "exit"
    /\ UNCHANGED <<ServerConfiguration, fs, backlog, arrived, fdTable, closes, threadVars>>

\* CreateThread with main going back to accept instead of joining the thread
CreateThread_NoJoin ==
    /\ mainPc = "create"
    /\ wpc' = [wpc EXCEPT ![clientfd] = "accepted"]
    /\ mainPc' = "accept"
    /\ UNCHANGED <<ServerConfiguration, fs, clientfd, backlog, arrived, fdTable, closes,
                   wfd, req, host_hdr, trace>>

\* line 501: pthread_create returns 0; line 502: main goes on to pthread_join
CreateThread ==
    /\ mainPc = "create"
    /\ wpc' = [wpc EXCEPT ![clientfd] = "accepted"]
    /\ mainPc' = "join"
    /\ UNCHANGED <<ServerConfiguration, fs, clientfd, backlog, arrived, fdTable, closes,
                   wfd, req, host_hdr, trace>>

\* lines 503-506: pthread_create fails: main closes the connection itself
CreateThreadFail ==
    /\ mainPc = "create"
    /\ wpc' = [wpc EXCEPT ![clientfd] = "nothread"]
    /\ fdTable' = fdTable \ { <<"sock", clientfd>> }
    /\ closes' = [closes EXCEPT ![clientfd] = @ + 1]
    /\ mainPc' = "accept"
    /\ UNCHANGED <<ServerConfiguration, fs, clientfd, backlog, arrived,
                   wfd, req, host_hdr, trace>>

\* line 502: pthread_join returns once the thread has returned; the thread and
\* its locals are gone, and with them what was recorded of its run
Join ==
    /\ mainPc = "join"
    /\ wpc[clientfd] = "closed"
    /\ wpc' = [wpc EXCEPT ![clientfd] = "joined"]
    /\ wfd' = [wfd EXCEPT ![clientfd] = 0]
    /\ req' = [req EXCEPT ![clientfd] = NoRequest]
    /\ host_hdr' = [host_hdr EXCEPT ![clientfd] = FALSE]
    /\ trace' = [trace EXCEPT ![clientfd] = << >>]
    /\ mainPc' = "accept"
    /\ UNCHANGED <<ServerConfiguration, fs, clientfd, backlog, arrived, fdTable, closes>>

(***************************************************************************)
(* The handler thread of connection c.                                     *)
(***************************************************************************)
\* line 246: int fd = *(int *)clientfd
Entry(c) ==
    /\ mainPc # "exit"
    /\ wpc[c] = "accepted"
    /\ wfd' = [wfd EXCEPT ![c] = clientfd]
    /\ wpc' = [wpc EXCEPT ![c] = "reading"]
    /\ UNCHANGED <<ServerConfiguration, fs, mainPc, clientfd, backlog, arrived, fdTable,
                   closes, req, host_hdr, trace>>

\* lines 262, 268: recv returns data; the buffer is scanned for "host:"
Recv(c) ==
    /\ mainPc # "exit"
    /\ wpc[c] = "reading"
    /\ \E r \in Requests : \E hh \in strcasestr(r) :
         /\ req' = [req EXCEPT ![c] = r]
         /\ host_hdr' = [host_hdr EXCEPT ![c] = hh]
    /\ trace' = [trace EXCEPT ![c] = Append(@, Ev("recv", "fd", 1))]
    /\ wpc' = [wpc EXCEPT ![c] = "dispatching"]
    /\ UNCHANGED <<ServerConfiguration, fs, mainPc, clientfd, backlog, arrived, fdTable,
                   closes, wfd>>

\* RecvFail with the error test forgotten: the handler goes on to dispatch
RecvFail_GoesOn(c) ==
    /\ mainPc # "exit"
    /\ wpc[c] = "reading"
    /\ trace' = [trace EXCEPT ![c] = @ \o << Ev("recv", "fd", -1), Ev("perror", "recv()", 0) >>]
    /\ wpc' = [wpc EXCEPT ![c] = "dispatching"]
    /\ UNCHANGED <<ServerConfiguration, fs, mainPc, clientfd, backlog, arrived, fdTable,
                   closes, wfd, req, host_hdr>>

\* lines 262-265: recv returns -1
RecvFail(c) ==
    /\ mainPc # "exit"
    /\ wpc[c] = "reading"
    /\ trace' = [trace EXCEPT ![c] = @ \o << Ev("recv", "fd", -1), Ev("perror", "recv()", 0) >>]
    /\ wpc' = [wpc EXCEPT ![c] = "closing"]
    /\ UNCHANGED <<ServerConfiguration, fs, mainPc, clientfd, backlog, arrived, fdTable,
                   closes, wfd, req, host_hdr>>

\* lines 268-319: the answer is composed and written, the request logged
Respond(c) ==
    /\ mainPc # "exit"
    /\ wpc[c] = "dispatching"
    /\ \E env \in Envs :
         LET ev == handleRequest(req[c], host_hdr[c], env) IN
           /\ trace' = [trace EXCEPT ![c] = @ \o ev]
           /\ fdTable' = IF FilesLeftOpen(ev) > 0 THEN fdTable \cup { <<"file", c>> }
                                                  ELSE fdTable
    /\ wpc' = [wpc EXCEPT ![c] = "closing"]
    /\ UNCHANGED <<ServerConfiguration, fs, mainPc, clientfd, backlog, arrived,
                   closes, wfd, req, host_hdr>>

\* Close reached only when every write to the socket succeeded
Close_OnlyAfterGoodWrites(c) ==
    /\ mainPc # "exit"
    /\ wpc[c] = "closing"
    /\ \A i \in 1..Len(trace[c]) : trace[c][i].op = "write" => trace[c][i].val = "ok"
    /\ fdTable' = fdTable \ { <<"sock", wfd[c]>> }
    /\ closes' = [closes EXCEPT ![wfd[c]] = @ + 1]
    /\ trace' = [trace EXCEPT ![c] = Append(@, Ev("close", "fd", 0))]
    /\ wpc' = [wpc EXCEPT ![c] = "closed"]
    /\ UNCHANGED <<ServerConfiguration, fs, mainPc, clientfd, backlog, arrived,
                   wfd, req, host_hdr>>

\* line 321: close(fd), and the thread returns
Close(c) ==
    /\ mainPc # "exit"
    /\ wpc[c] = "closing"
    /\ fdTable' = fdTable \ { <<"sock", wfd[c]>> }
    /\ closes' = [closes EXCEPT ![wfd[c]] = @ + 1]
    /\ trace' = [trace EXCEPT ![c] = Append(@, Ev("close", "fd", 0))]
    /\ wpc' = [wpc EXCEPT ![c] = "closed"]
    /\ UNCHANGED <<ServerConfiguration, fs, mainPc, clientfd, backlog, arrived,
                   wfd, req, host_hdr>>

Handler(c) == Entry(c) \/ Recv(c) \/ RecvFail(c) \/ Respond(c) \/ Close(c)

Next ==
    \/ processArguments
    \/ Connect
    \/ Accept
    \/ AcceptFail
    \/ CreateThread
    \/ CreateThreadFail
    \/ Join
    \/ \E c \in Conns : Handler(c)

Spec == Init /\ [][Next]_vars

NextCfg ==
    \/ Connect
    \/ Accept
    \/ AcceptFail
    \/ CreateThread
    \/ CreateThreadFail
    \/ Join
    \/ \E c \in Conns : Handler(c)

SpecCfg == InitCfg /\ [][NextCfg]_vars

\* The scheduling: main's pthread_create returns, and a handler thread goes on
\* as long as it has a step to take, its blocking calls (recv, write, sendfile)
\* returning.
SpecFair ==
    /\ Init
    /\ [][Next]_vars
    /\ WF_vars(CreateThread \/ CreateThreadFail)
    /\ \A c \in Conns : WF_vars(Handler(c))

(***************************************************************************)
(* Reading a thread's trace.                                               *)
(***************************************************************************)
\* the handler has written its answer (or given up) and is at or past close
Finished(c) == wpc[c] \in {"closing", "closed"}
\* recv returned data
ReadOk(c) == \E i \in 1..Len(trace[c]) : trace[c][i].op = "recv" /\ trace[c][i].val = 1
Answered(c) == Finished(c) /\ ReadOk(c)

OfOp(ev, ops) == SelectSeq(ev, LAMBDA e : e.op \in ops)
\* the header blocks written, in order, and the status of the first
StatusLines(ev) == SelectSeq(ev, LAMBDA e : e.op = "write" /\ e.arg.kind = "hdr")
Status(ev) == IF StatusLines(ev) = << >> THEN 0 ELSE StatusLines(ev)[1].arg.status
\* the value of a header of the first header block, -1 when it has none
Header(ev, name) ==
    LET f == StatusLines(ev)[1].arg.fields
        at == { i \in 1..Len(f) : f[i][1] = name }
    IN IF StatusLines(ev) = << >> \/ at = {} THEN -1 ELSE f[CHOOSE i \in at : TRUE][2]
\* what follows the header block on the connection: fixed bodies and file bytes
Body(ev) ==
    SelectSeq(ev, LAMBDA e : \/ e.op = "sendfile" /\ e.val > 0
                             \/ e.op = "write" /\ e.arg.kind = "html")
\* everything put on the connection, in order
Wire(ev) == SelectSeq(ev, LAMBDA e : e.op \in {"write", "sendfile"})
\* the byte count of the request's log line
Logged(ev) == OfOp(ev, {"log"})
\* filesystem calls
Probes(ev) == OfOp(ev, {"getFileSize", "getFileLastModTime"})
Opens(ev) == OfOp(ev, {"open"})
Calls(ev) == OfOp(ev, {"transferFile"})

\* the client took everything it was sent: no write failed and sendfile
\* transferred the whole count it was given
Delivered(ev) ==
    \A i \in 1..Len(ev) :
        /\ ev[i].op = "write" => ev[i].val = "ok"
        /\ ev[i].op = "sendfile" => ev[i].val = lstat(ev[i].arg).size
OpenSucceeds(ev) == \A i \in 1..Len(ev) : ev[i].op = "open" => ev[i].val # -1

\* the environment's answers as far as a trace shows them
EnvOf(ev) ==
    LET sf == OfOp(ev, {"sendfile"})
        wrerr == \E i \in 1..Len(ev) : ev[i].op = "write" /\ ev[i].val = "err"
    IN [open |-> OpenSucceeds(ev),
        wr |-> IF wrerr THEN "err" ELSE "ok",
        sf |-> IF sf = << >> THEN (IF wrerr THEN "fail" ELSE "full")
               ELSE IF sf[1].val = -1 THEN "fail"
               ELSE IF sf[1].val = lstat(sf[1].arg).size THEN "full" ELSE "short",
        now |-> IF Status(ev) = 200 THEN Header(ev, "Date")[2] ELSE CHOOSE t \in Times : TRUE]

IsFileRequest(c) == host_hdr[c] /\ req[c].method \in {"GET", "HEAD"}
Target(c) == lstat(FilePath(req[c].url))
IndexTarget(c) == lstat(PathJoin(FilePath(req[c].url), ServerConfiguration.indexFile))

(***************************************************************************)
(* The claims.                                                             *)
(***************************************************************************)

\* C1: a GET that carries a host: token and resolves to a regular file that
\* opens for reading is answered 200, with Content-Length the file's size and
\* with exactly the file's bytes after the header block (the client taking
\* all it is sent).
C1_GetRegularFile ==
    \A c \in Conns :
        ( /\ Answered(c) /\ req[c].host /\ req[c].method = "GET"
          /\ Target(c).kind = "reg"
          /\ OpenSucceeds(trace[c]) /\ Delivered(trace[c]) )
        => /\ Status(trace[c]) = 200
           /\ Header(trace[c], "Content-Length") = Target(c).size
           /\ Body(trace[c]) = IF Target(c).size = 0 THEN << >>
                               ELSE << Ev("sendfile", FilePath(req[c].url), Target(c).size) >>

\* C2: a HEAD that carries a host: token and resolves to a regular file that
\* opens is answered 200 with the header block of the GET (Date, Last-Modified,
\* Content-Length, Server) and no byte after it.
C2_HeadRegularFile ==
    \A c \in Conns :
        ( /\ Answered(c) /\ req[c].host /\ req[c].method = "HEAD"
          /\ Target(c).kind = "reg"
          /\ OpenSucceeds(trace[c]) /\ Delivered(trace[c]) )
        => /\ Status(trace[c]) = 200
           /\ StatusLines(trace[c]) =
                 << Ev("write", OkHeaders(Target(c).size, Target(c).mtime, EnvOf(trace[c])), "ok") >>
           /\ Body(trace[c]) = << >>

C4_OtherMethodIs405 ==
    \A c \in Conns :
        (Answered(c) /\ host_hdr[c] /\ req[c].method \notin {"GET", "HEAD"})
        => /\ Status(trace[c]) = 405
           /\ Len(StatusLines(trace[c])) = 1
           /\ Calls(trace[c]) = << >>
           /\ Probes(trace[c]) = << >>
           /\ Opens(trace[c]) = << >>

\* C4 witness: a POST with host: for a file that a GET would have served
C4_Witness ==
    \E c \in Conns :
        /\ Answered(c) /\ req[c].host /\ req[c].method = "POST"
        /\ Target(c).kind = "reg" /\ Target(c).size > 0

\* the same request made for the index file by its own URL
DirectRequest(r) == [r EXCEPT !.url = Append(r.url, ServerConfiguration.indexFile)]

\* C5: a GET or HEAD for a directory whose index file exists, index serving
\* being on, is answered exactly as the same request for the index file's own
\* URL: same bytes on the connection (status line, headers, body) and same
\* byte count returned.
C5_IndexSameAsDirect ==
    \A c \in Conns :
        ( /\ Answered(c) /\ IsFileRequest(c)
          /\ ServerConfiguration.serveIndexFileInDirectory = 1
          /\ Target(c).kind = "dir" /\ IndexTarget(c).kind = "reg" )
        => LET direct == handleRequest(DirectRequest(req[c]), TRUE, EnvOf(trace[c]))
           IN /\ Wire(trace[c]) = Wire(direct)
              /\ Len(Logged(trace[c])) = 1 /\ Len(Logged(direct)) = 1
              /\ Logged(trace[c])[1].val = Logged(direct)[1].val

\* C5 witness: a HEAD for a directory whose index file has bytes, answered 200
C5_Witness ==
    \E c \in Conns :
        /\ Answered(c) /\ IsFileRequest(c) /\ req[c].method = "HEAD"
        /\ ServerConfiguration.serveIndexFileInDirectory = 1
        /\ Target(c).kind = "dir" /\ IndexTarget(c).kind = "reg" /\ IndexTarget(c).size > 0
        /\ Status(trace[c]) = 200

\* C6: a GET or HEAD for a directory without a regular index file, index
\* serving being on, is answered 404 and opens no file.
C6_NoIndexIs404 ==
    \A c \in Conns :
        ( /\ Answered(c) /\ IsFileRequest(c)
          /\ ServerConfiguration.serveIndexFileInDirectory = 1
          /\ Target(c).kind = "dir" /\ IndexTarget(c).kind # "reg" )
        => /\ Status(trace[c]) = 404
           /\ Len(StatusLines(trace[c])) = 1
           /\ Opens(trace[c]) = << >>

\* C6 witness: the index name is itself a directory that holds an index file
C6_Witness ==
    \E c \in Conns :
        /\ Answered(c) /\ IsFileRequest(c)
        /\ ServerConfiguration.serveIndexFileInDirectory = 1
        /\ Target(c).kind = "dir" /\ IndexTarget(c).kind = "dir"
        /\ lstat(PathDII).kind = "reg"

\* C7: a GET or HEAD for a directory, index serving being off, is answered
\* 403; the index path is not probed and no file is opened.
C7_ListingDeniedIs403 ==
    \A c \in Conns :
        ( /\ Answered(c) /\ IsFileRequest(c)
          /\ ServerConfiguration.serveIndexFileInDirectory # 1
          /\ Target(c).kind = "dir" )
        => /\ Status(trace[c]) = 403
           /\ Len(StatusLines(trace[c])) = 1
           /\ \A i \in 1..Len(Probes(trace[c])) : Probes(trace[c])[i].arg = FilePath(req[c].url)
           /\ Opens(trace[c]) = << >>

\* C7 witness: index serving off, and the directory does hold an index file
C7_Witness ==
    \E c \in Conns :
        /\ Answered(c) /\ IsFileRequest(c)
        /\ ServerConfiguration.serveIndexFileInDirectory = 0
        /\ Target(c).kind = "dir" /\ IndexTarget(c).kind = "reg" /\ IndexTarget(c).size > 0

\* a handler thread exists for c and has not returned
InFlight(c) == wpc[c] \in {"accepted", "reading", "dispatching", "closing"}

\* C8: the acceptor blocks only on accept: while a connection's handler is in
\* flight the acceptor is not waiting for it.
C8_AcceptorNeverWaitsForWorker ==
    \A c \in Conns : InFlight(c) => mainPc # "join"

\* C9: no error is fatal to the process: whatever fails (recv, write, sendfile,
\* pthread_create, accept), the acceptor loop is still running.
C9_AcceptorLoopNeverLeft == mainPc # "exit"

\* the processing of connection c is over: its handler returned, or no
\* handler could be created and main dealt with it
Terminal(c) == wpc[c] \in {"closed", "joined", "nothread"}

\* C10: when the processing of a connection is over, on whatever path, its
\* socket has been closed exactly once and no file opened for it is open.
C10_DescriptorsReleased ==
    \A c \in Conns :
        Terminal(c) => /\ <<"sock", c>> \notin fdTable
                       /\ closes[c] = 1
                       /\ <<"file", c>> \notin fdTable
                       /\ FilesLeftOpen(trace[c]) = 0

\* C10 witness: a handler returned after sendfile failed on the file it opened
C10_Witness ==
    \E c \in Conns :
        /\ wpc[c] = "closed"
        /\ \E i \in 1..Len(trace[c]) : trace[c][i].op = "sendfile" /\ trace[c][i].val = -1


\* C11: every request that is answered, completed or rejected (200, 400, 403,
\* 404, 405, 503), has exactly one log line written for it.
C11_OneLogLinePerAnswer ==
    \A c \in Conns : Answered(c) => Len(Logged(trace[c])) = 1

\* recv returned -1
ReadFailed(c) == \E i \in 1..Len(trace[c]) : trace[c][i].op = "recv" /\ trace[c][i].val = -1

\* C12: when the one recv fails, nothing is written to the client, the
\* filesystem is not touched, no request line is logged, and the socket is
\* closed when the handler returns.
C12_ReadErrorClosesSilently ==
    \A c \in Conns :
        ReadFailed(c) =>
            /\ wpc[c] \in {"closing", "closed"}
            /\ Wire(trace[c]) = << >>
            /\ Calls(trace[c]) = << >> /\ Probes(trace[c]) = << >> /\ Opens(trace[c]) = << >>
            /\ Logged(trace[c]) = << >>
            /\ wpc[c] = "closed" =>
                  /\ <<"sock", c>> \notin fdTable
                  /\ closes[c] = 1
                  /\ trace[c][Len(trace[c])] = Ev("close", "fd", 0)

\* C12 witness: a handler returned after its recv failed
C12_Witness == \E c \in Conns : ReadFailed(c) /\ wpc[c] = "closed"


IsHeaderWrite(e) == e.op = "write" /\ e.arg.kind = "hdr"
IsBodyTransfer(e) == e.op = "sendfile" \/ (e.op = "write" /\ e.arg.kind = "html")
IsWire(e) == e.op \in {"write", "sendfile"}
IsSocketClose(e) == e.op = "close" /\ e.arg = "fd"

\* C13: within a connection the header block is written before any body
\* transfer, the log line comes after the writes of the answer, the close of
\* the socket comes after both, and nothing is written after the close.
C13_EventOrder ==
    \A c \in Conns : \A i, j \in 1..Len(trace[c]) :
        LET a == trace[c][i]
            b == trace[c][j]
        IN /\ (IsHeaderWrite(a) /\ IsBodyTransfer(b)) => i < j
           /\ (IsWire(a) /\ b.op = "log") => i < j
           /\ ((IsWire(a) \/ a.op = "log") /\ IsSocketClose(b)) => i < j

\* C13 witness: a returned handler that wrote headers, sent file bytes, logged
\* the request and closed the socket
C13_Witness ==
    \E c \in Conns :
        /\ wpc[c] = "closed"
        /\ Status(trace[c]) = 200
        /\ \E i \in 1..Len(trace[c]) : trace[c][i].op = "sendfile" /\ trace[c][i].val > 0
        /\ Len(Logged(trace[c])) = 1
        /\ \E i \in 1..Len(trace[c]) : IsSocketClose(trace[c][i])


\* the names of the headers of a header block, and the value of one of them
HeaderNames(block) == { block.fields[i][1] : i \in 1..Len(block.fields) }
HasHeader(block, name, value) ==
    \E i \in 1..Len(block.fields) : block.fields[i][1] = name /\ block.fields[i][2] = value

\* C14: a 200 header block carries Date, Last-Modified, Content-Length and
\* Server and no Connection header; every other header block is one of 400,
\* 403, 404, 405, 503 and carries Connection: close and Server and none of
\* Date, Last-Modified, Content-Length.
C14_HeadersByOutcome ==
    \A c \in Conns : \A i \in 1..Len(trace[c]) :
        IsHeaderWrite(trace[c][i]) =>
            LET block == trace[c][i].arg IN
            IF block.status = 200
            THEN /\ {"Date", "Last-Modified", "Content-Length", "Server"} \subseteq HeaderNames(block)
                 /\ "Connection" \notin HeaderNames(block)
            ELSE /\ block.status \in {400, 403, 404, 405, 503}
                 /\ HasHeader(block, "Connection", "close")
                 /\ "Server" \in HeaderNames(block)
                 /\ HeaderNames(block) \cap {"Date", "Last-Modified", "Content-Length"} = {}

\* C14 witness: a file that does not open, answered 503
C14_Witness ==
    \E c \in Conns : Answered(c) /\ ~OpenSucceeds(trace[c]) /\ Status(trace[c]) = 503


\* C15: a regular file of size 0 is served like one of positive size: a GET
\* or HEAD that resolves to a zero-byte file that opens, directly or as the
\* index file of a directory, is answered 200 with Content-Length 0.
C15_EmptyFileServed ==
    \A c \in Conns :
        ( /\ Answered(c) /\ IsFileRequest(c) /\ OpenSucceeds(trace[c])
          /\ \/ Target(c).kind = "reg" /\ Target(c).size = 0
             \/ /\ Target(c).kind = "dir"
                /\ ServerConfiguration.serveIndexFileInDirectory = 1
                /\ IndexTarget(c).kind = "reg" /\ IndexTarget(c).size = 0 )
        => /\ Status(trace[c]) = 200
           /\ Header(trace[c], "Content-Length") = 0

\* the body bytes handed to the connection: the fixed bodies passed to write
\* and the bytes sendfile reports as transferred
RECURSIVE BodyBytes(_)
BodyBytes(ev) ==
    IF ev = << >> THEN 0
    ELSE LET e == Head(ev)
             n == IF e.op = "sendfile" /\ e.val > 0 THEN e.val
                  ELSE IF e.op = "write" /\ e.arg.kind = "html" THEN HTTP_BODY_LEN(e.arg.status)
                  ELSE 0
         IN n + BodyBytes(Tail(ev))

SendfileFailed(ev) == \E i \in 1..Len(ev) : ev[i].op = "sendfile" /\ ev[i].val = -1

\* C16: the byte count of a request's log line is the number of body bytes
\* written for its answer (file bytes or fixed HTML body), or -1 when sendfile
\* failed after the headers.
C16_LoggedBytesAreBodyBytes ==
    \A c \in Conns :
        (Answered(c) /\ Len(Logged(trace[c])) = 1)
        => Logged(trace[c])[1].val =
              IF SendfileFailed(trace[c]) THEN -1 ELSE BodyBytes(trace[c])


\* C17: when the path is a regular file and open fails, the answer is the 503
\* header block followed by the fixed 503 body: no 200 status line, no
\* Content-Length, no byte of the file, and no file descriptor left open.
C17_OpenFailureIs503 ==
    \A c \in Conns :
        (Answered(c) /\ ~OpenSucceeds(trace[c]))
        => LET ev == trace[c]
               wrote == Wire(ev)
           IN /\ Len(wrote) = 2
              /\ wrote[1].op = "write" /\ wrote[1].arg = ErrorHeaders(503)
              /\ wrote[2].op = "write" /\ wrote[2].arg = HtmlBody(503)
              /\ \A i \in 1..Len(ev) :
                    /\ ev[i].op # "sendfile"
                    /\ IsHeaderWrite(ev[i]) =>
                          /\ ev[i].arg.status # 200
                          /\ "Content-Length" \notin HeaderNames(ev[i].arg)
                    /\ ev[i].op = "open" => lstat(ev[i].arg).kind = "reg"
              /\ FilesLeftOpen(ev) = 0
              /\ <<"file", c>> \notin fdTable

\* C17 witness: a GET for a file with bytes whose open fails
C17_Witness ==
    \E c \in Conns :
        /\ Answered(c) /\ ~OpenSucceeds(trace[c])
        /\ req[c].method = "GET" /\ Target(c).kind = "reg" /\ Target(c).size > 0


\* C18: every answer with a status other than 200 is its header block
\* followed by the fixed HTML body of that status, for HEAD as for GET; only
\* on a 200 does HEAD leave the body out.
C18_ErrorBodyAlwaysSent ==
    \A c \in Conns :
        Answered(c) =>
            LET wrote == Wire(trace[c]) IN
            IF Status(trace[c]) # 200
            THEN /\ Len(wrote) = 2
                 /\ IsHeaderWrite(wrote[1])
                 /\ wrote[2].op = "write" /\ wrote[2].arg = HtmlBody(wrote[1].arg.status)
            ELSE req[c].method = "HEAD" => Body(trace[c]) = << >>

\* C18 witness: a HEAD answered 404 with the 404 body
C18_Witness ==
    \E c \in Conns :
        /\ Answered(c) /\ req[c].method = "HEAD" /\ host_hdr[c]
        /\ Status(trace[c]) = 404
        /\ Body(trace[c]) # << >>


\* the paths a thread handed to transferFile, lstat or open
PathsTouched(ev) ==
    { ev[i].arg : i \in { j \in 1..Len(ev) :
                            ev[j].op \in {"transferFile", "getFileSize",
                                          "getFileLastModTime", "open", "sendfile"} } }

\* the index names a thread built (line 181)
IndexNamesBuilt(ev) ==
    SelectSeq(ev, LAMBDA e : e.op = "debug" /\ e.arg = "Serving the index file")

\* C19: index resolution stops after one level.  A request makes at most two
\* calls of transferFile; the second is for the requested directory's index
\* path, made only after that path probed as a regular file; at most one index
\* name is built, and no path below the index path is ever probed or opened,
\* also when the index name is a directory.
C19_OneLevelOfIndex ==
    \A c \in Conns :
        LET calls == Calls(trace[c])
            first == FilePath(req[c].url)
            index == PathJoin(first, ServerConfiguration.indexFile)
        IN /\ Len(calls) <= 2
           /\ Len(calls) >= 1 => calls[1].arg = first
           /\ Len(calls) = 2 =>
                 /\ calls[2].arg = index
                 /\ lstat(first).kind = "dir"
                 /\ lstat(index).kind = "reg"
                 /\ \E i \in 1..Len(trace[c]) :
                       /\ trace[c][i] = Ev("getFileSize", index, lstat(index).size)
                       /\ trace[c][i + 1] = Ev("transferFile", index, calls[1].val)
           /\ Len(IndexNamesBuilt(trace[c])) <= 1
           /\ PathsTouched(trace[c]) \subseteq {first, index}

\* C19 witness: the directory's index name is a directory with an index file of
\* its own; it was probed, and transferFile was not called on it
C19_Witness ==
    \E c \in Conns :
        /\ Answered(c) /\ req[c].method = "GET"
        /\ lstat(PathDI).kind = "dir" /\ lstat(PathDII).kind = "reg"
        /\ Ev("getFileSize", PathDI, -2) \in { trace[c][i] : i \in 1..Len(trace[c]) }
        /\ Len(Calls(trace[c])) = 1


\* where connection c is in the handler's life cycle; "None" before a handler
\* has been given the connection
ConnState(c) ==
    CASE wpc[c] = "none" -> "None"
      [] wpc[c] = "accepted" -> "Accepted"
      [] wpc[c] = "reading" -> "Reading"
      [] wpc[c] = "dispatching" -> "Dispatching"
      [] wpc[c] = "closing" -> IF ReadOk(c) THEN "Responding" ELSE "Reading"
      [] wpc[c] \in {"closed", "joined", "nothread"} -> "Closed"

\* the steps of the life cycle; a connection for which no handler could be
\* created is closed by the acceptor without having been handed over
ConnSteps ==
    { <<"None", "Accepted">>, <<"None", "Closed">>,
      <<"Accepted", "Reading">>,
      <<"Reading", "Closed">>, <<"Reading", "Dispatching">>,
      <<"Dispatching", "Responding">>,
      <<"Responding", "Closed">> }

\* one step of connection c keeps to the life cycle
ConnStepOk(c) ==
    /\ ConnState(c)' # ConnState(c) => <<ConnState(c), ConnState(c)'>> \in ConnSteps
    /\ trace'[c] \notin {trace[c], << >>} =>
          ConnState(c) \in {"Reading", "Dispatching", "Responding"}
    /\ ConnState(c) = "Closed" =>
          /\ ConnState(c)' = "Closed"
          /\ trace'[c] \in {trace[c], << >>}
          /\ closes'[c] = closes[c]
          /\ <<"sock", c>> \notin fdTable'

\* C20: a connection moves only along Accepted -> Reading -> (Closed |
\* Dispatching -> Responding -> Closed); Closed is terminal and a closed
\* connection is never read, written, dispatched or closed again; and, the
\* handler's calls returning, every accepted connection is eventually Closed
\* with its socket closed, whether its writes succeeded or failed.
C20_ConnectionLifeCycle ==
    /\ [][\A c \in Conns : ConnStepOk(c)]_vars
    /\ \A c \in Conns :
          (<<"sock", c>> \in fdTable) ~>
              (ConnState(c) = "Closed" /\ <<"sock", c>> \notin fdTable)

\* C20 witness: a connection Closed after an answer whose writes failed
C20_Witness ==
    \E c \in Conns :
        /\ wpc[c] = "closed" /\ ReadOk(c)
        /\ <<"sock", c>> \notin fdTable
        /\ \E i \in 1..Len(trace[c]) : trace[c][i].op = "write" /\ trace[c][i].val = "err"


\* the statuses the server answers with
Statuses == {200, 400, 403, 404, 405, 503}

\* C21: a connection whose read succeeded gets exactly one status line, one of
\* 200, 400, 403, 404, 405, 503, written before the socket is closed; one
\* whose read failed gets none; no connection ever gets two (a 200 block is
\* never followed by an error block).
C21_ExactlyOneStatusLine ==
    \A c \in Conns :
        LET lines == StatusLines(trace[c]) IN
        /\ Len(lines) <= 1
        /\ Finished(c) =>
              IF ReadOk(c)
              THEN /\ Len(lines) = 1
                   /\ lines[1].arg.status \in Statuses
              ELSE /\ lines = << >>
                   /\ Wire(trace[c]) = << >>
        /\ \A i, j \in 1..Len(trace[c]) :
              IsHeaderWrite(trace[c][i]) /\ IsSocketClose(trace[c][j]) => i < j

\* C21 witness: a 200 block was written, then sendfile failed, and the
\* connection was closed
C21_Witness ==
    \E c \in Conns :
        /\ wpc[c] = "closed" /\ ReadOk(c)
        /\ Status(trace[c]) = 200
        /\ SendfileFailed(trace[c])


\* the connections accept has returned so far
AcceptedSocks == 1..(arrived - backlog)

\* until the handler of c has read *clientfd (line 246), main's clientfd still
\* holds c's descriptor
DereferencedInTime ==
    \A c \in Conns : wpc[c] = "accepted" => clientfd = c /\ <<"sock", c>> \in fdTable

\* the descriptor a handler works on is the one accepted for it, it stays open
\* until that handler closes it, and no descriptor is closed twice
OwnSocketOnly ==
    \A c \in Conns :
        /\ wpc[c] \in {"reading", "dispatching", "closing", "closed"} => wfd[c] = c
        /\ wpc[c] \in {"reading", "dispatching", "closing"} => <<"sock", c>> \in fdTable
        /\ closes[c] <= 1

\* whenever main is back at accept, each socket accepted so far has been dealt
\* with by one of the given ways and is closed
AllDealtWith(ways) ==
    mainPc = "accept" =>
        \A s \in AcceptedSocks : wpc[s] \in ways /\ <<"sock", s>> \notin fdTable

\* C22 as stated: a handler works on and closes the descriptor accepted for
\* it, having read main's clientfd before the next accept overwrites it, and
\* every accepted socket is served by a handler.
C22_EverySocketServedByItsHandler ==
    /\ DereferencedInTime
    /\ OwnSocketOnly
    /\ AllDealtWith({"joined"})

\* C22 amended: a handler works on and closes the descriptor accepted for it,
\* having read main's clientfd before the next accept overwrites it, and every
\* accepted socket is served by its own handler, or, when pthread_create
\* failed, closed by main without having been served.
C22_SocketServedByItsHandlerOrClosedByMain ==
    /\ DereferencedInTime
    /\ OwnSocketOnly
    /\ AllDealtWith({"joined", "nothread"})

\* C22 witness: after a connection that got no handler, the handler of the
\* next one has read its descriptor and closed it
C22_Witness ==
    /\ wpc[1] = "nothread"
    /\ wpc[2] = "closed" /\ wfd[2] = 2 /\ closes[2] = 1
    /\ ReadOk(2)


\* C23: in the server as started by main, serveIndexFileInDirectory is 1 from
\* processArguments on and no handler runs before; so a request for a
\* directory is answered 200 or 503 (its index file of positive size) or 404,
\* and no 403 block is ever written.
C23_IndexServingAlwaysOn ==
    /\ ServerConfiguration.serveIndexFileInDirectory = (IF mainPc = "start" THEN 0 ELSE 1)
    /\ mainPc = "start" => \A c \in Conns : wpc[c] = "none" /\ trace[c] = << >>
    /\ \A c \in Conns :
          /\ \A i \in 1..Len(trace[c]) :
                trace[c][i].op = "write" => trace[c][i].arg.status # 403
          /\ (Answered(c) /\ IsFileRequest(c) /\ Target(c).kind = "dir") =>
                /\ Status(trace[c]) \in {200, 404, 503}
                /\ Status(trace[c]) \in {200, 503} <=>
                      (IndexTarget(c).kind = "reg" /\ IndexTarget(c).size > 0)
                /\ Status(trace[c]) = 200 <=>
                      (IndexTarget(c).kind = "reg" /\ IndexTarget(c).size > 0
                         /\ OpenSucceeds(trace[c]))

\* C23 witness: a request for a directory answered 503, its index file not
\* having been opened
C23_Witness ==
    \E c \in Conns :
        /\ Answered(c) /\ IsFileRequest(c)
        /\ Target(c).kind = "dir"
        /\ Status(trace[c]) = 503

====
